---- MODULE Spec2Model ----
(***************************************************************************)
(* AFEM: the part-joining tools of afem/structure/join.py and the extrema  *)
(* tools of afem/geometry/distance.py.                                     *)
(*                                                                         *)
(* Every tool is a class whose constructor does all the work, so one       *)
(* action is one constructor call.  The kernel (Boolean, sewing and        *)
(* extrema primitives, the shape resolver, Part.cut, Part.fuse) is outside *)
(* these files: what it answers is an input of the action, and every call  *)
(* made to it is appended to log in program order.                         *)
(***************************************************************************)
EXTENDS Integers, Sequences, FiniteSets, TLC

VARIABLES
    shape,      \* part.shape of every part
    op,         \* the constructor that ran ("none" before the call)
    call,       \* its arguments and the kernel's answers
    log,        \* the calls made to the kernel and to the parts, in order
    result      \* the exception raised ("" if none) and the object's fields

vars == <<shape, op, call, log, result>>

----------------------------------------------------------------------------
(* Bounds *)

NParts == 3         \* parts of the structural model
MaxLen == 2         \* parts handed to one fuse / split / cut / sew call
MaxAssys == 2       \* assemblies handed to FuseAssemblies
MaxSol == 3         \* extrema a solver returns
MaxDist == 2        \* largest distance of an extremum

Parts == 1..NParts

SeqsUpTo(S, n) == UNION {[1..k -> S] : k \in 0..n}

Range(s) == {s[i] : i \in 1..Len(s)}

----------------------------------------------------------------------------
(* Shapes.  A shape is an object identity.  Part p starts with shape p; the *)
(* shape a primitive makes out of shape s is a new object, Modified(s).     *)

ShapeAtEntry == [p \in Parts |-> p]

Modified(s) == s + NParts

ShapesOf(parts, sh) == [i \in 1..Len(parts) |-> sh[parts[i]]]

Ev(e, p, a, k) == [ev |-> e, part |-> p, arg |-> a, ok |-> k]

NoCall == [none |-> TRUE]

NoResult == [raised |-> ""]

----------------------------------------------------------------------------
(* The resolver loop shared by FuseSurfaceParts, SplitParts and            *)
(* FuseAssemblies:                                                         *)
(*     for part in ...:                                                    *)
(*         new_shape = rebuild.new_shape(part.shape)                       *)
(*         part.set_shape(new_shape)                                       *)
(* fates[i] is what the resolver answers in iteration i: the shape itself  *)
(* ("same"), its replacement ("mod"), or an exception ("fail").            *)

Fate == {"same", "mod", "fail"}

Resolved(s, fate) == IF fate = "mod" THEN Modified(s) ELSE s

RECURSIVE RebuildLoop(_, _, _, _, _)
RebuildLoop(parts, fates, i, sh, lg) ==
    IF i > Len(parts)
    THEN [shape |-> sh, log |-> lg, raised |-> ""]
    ELSE LET part == parts[i]
             old == sh[part]
             asked == Append(lg, Ev("new_shape", part, <<old>>, fates[i] # "fail"))
         IN  IF fates[i] = "fail"
             THEN [shape |-> sh, log |-> asked, raised |-> "ResolverError"]
             ELSE LET new == Resolved(old, fates[i])
                  IN  RebuildLoop(parts, fates, i + 1,
                                  [sh EXCEPT ![part] = new],
                                  Append(asked, Ev("set_shape", part, <<new>>, TRUE)))

(* The kernel is a function of the shape it is asked about: two questions  *)
(* about one shape get one answer, and the answers of iterations that were *)
(* never reached are fixed.                                                *)
Asked(lg, e) == SelectSeq(lg, LAMBDA x : x.ev = e)

KernelAnswers(lg, e, answers, unused) ==
    LET q == Asked(lg, e)
    IN  /\ \A i \in DOMAIN answers : i > Len(q) => answers[i] = unused
        /\ \A i, j \in 1..Len(q) : q[i].arg = q[j].arg => answers[i] = answers[j]

----------------------------------------------------------------------------
(* FuseSurfaceParts.__init__ *)

FuseSurfaceParts ==
    /\ op = "none"
    /\ \E parts \in SeqsUpTo(Parts, MaxLen), tools \in SeqsUpTo(Parts, MaxLen),
          done \in BOOLEAN :
         /\ Len(parts) + Len(tools) <= MaxLen
         /\ \E fates \in [1..(Len(parts) + Len(tools)) -> Fate] :
              LET args == ShapesOf(parts, shape)
                  tls == ShapesOf(tools, shape)
                  pre == << Ev("set_args", 0, args, TRUE),
                            Ev("set_tools", 0, tls, TRUE),
                            Ev("build", 0, <<>>, done),
                            Ev("RebuildShapesByTool", 0, args \o tls, TRUE) >>
              IN  \E run \in {RebuildLoop(parts \o tools, fates, 1, shape, pre)} :
                  /\ KernelAnswers(run.log, "new_shape", fates, "same")
                  /\ op' = "FuseSurfaceParts"
                  /\ call' = [parts |-> parts, tools |-> tools, bop_done |-> done]
                  /\ shape' = run.shape
                  /\ log' = run.log
                  /\ result' = [raised |-> run.raised,
                                is_done |-> run.raised = "" /\ done]

----------------------------------------------------------------------------
(* FuseSurfacePartsByCref.__init__ *)

(* The type check made on the first part only. *)
HasNonSurfacePart_FirstOnly(parts, nonSurf) == parts # <<>> /\ parts[1] \in nonSurf

(* for part in parts: if not isinstance(part, SurfacePart): raise TypeError *)
HasNonSurfacePart(parts, nonSurf) == \E i \in 1..Len(parts) : parts[i] \in nonSurf

(* The test of bop.vertices inverted. *)
Intersects_Inverted(x, main, other) == {main, other} \notin x

(* bop.vertices of IntersectShapes(e1, e2): x holds the pairs of parts     *)
(* whose reference-curve edges meet in at least one vertex.                *)
Intersects(x, main, other) == {main, other} \in x

(* The tolerance of one test: global_tolerance of both shapes when tol is  *)
(* None, no kernel call otherwise.                                         *)
ToleranceCalls(tolGiven, sh, main, other) ==
    IF tolGiven THEN <<>>
    ELSE << Ev("global_tolerance", main, <<sh[main]>>, TRUE),
            Ev("global_tolerance", other, <<sh[other]>>, TRUE) >>

(* for j in range(i + 1, nparts): ... other_parts.append(other) *)
RECURSIVE CrefInner(_, _, _, _, _, _, _, _, _)
CrefInner(parts, cref, x, tolGiven, sh, i, j, others, lg) ==
    IF j > Len(parts)
    THEN [others |-> others, log |-> lg]
    ELSE LET main == parts[i]
             other == parts[j]
         IN  IF main \notin cref \/ other \notin cref
             THEN CrefInner(parts, cref, x, tolGiven, sh, i, j + 1, others, lg)
             ELSE LET hit == Intersects(x, main, other)
                      lg2 == lg \o ToleranceCalls(tolGiven, sh, main, other)
                                \o << Ev("EdgeByCurve", main, <<>>, TRUE),
                                      Ev("EdgeByCurve", other, <<>>, TRUE),
                                      Ev("IntersectShapes", main, <<other>>, hit) >>
                  IN  CrefInner(parts, cref, x, tolGiven, sh, i, j + 1,
                                IF hit THEN Append(others, other) ELSE others, lg2)

(* for i in range(0, nparts - 1): ... main_parts / join_parts *)
RECURSIVE CrefOuter(_, _, _, _, _, _, _, _, _)
CrefOuter(parts, cref, x, tolGiven, sh, i, mains, joins, lg) ==
    IF i > Len(parts) - 1
    THEN [mains |-> mains, joins |-> joins, log |-> lg]
    ELSE LET inner == CrefInner(parts, cref, x, tolGiven, sh, i, i + 1, <<>>, lg)
         IN  IF inner.others # <<>>
             THEN CrefOuter(parts, cref, x, tolGiven, sh, i + 1,
                            Append(mains, parts[i]), Append(joins, inner.others),
                            inner.log)
             ELSE CrefOuter(parts, cref, x, tolGiven, sh, i + 1, mains, joins,
                            inner.log)

(* main.fuse of all the other parts: a fuse that succeeds rebuilds the shape of the *)
(* main part and of every other part.                                      *)
FuseEffect(sh, main, others, ok) ==
    IF ok
    THEN [p \in Parts |-> IF p \in {main} \cup Range(others)
                          THEN Modified(sh[p]) ELSE sh[p]]
    ELSE sh

(* The same loop fusing the main part with one candidate per call. *)
RECURSIVE CrefJoin_Pairwise(_, _, _, _, _, _, _)
CrefJoin_Pairwise(mains, joins, fuseOk, k, sh, lg, isDone) ==
    IF k > Len(mains)
    THEN [shape |-> sh, log |-> lg, is_done |-> isDone]
    ELSE CrefJoin_Pairwise(mains, joins, fuseOk, k + 1,
                           FuseEffect(sh, mains[k], joins[k], fuseOk[k]),
                           lg \o [t \in 1..Len(joins[k]) |->
                                     Ev("fuse", mains[k], <<joins[k][t]>>, fuseOk[k])],
                           TRUE)

(* The same loop with is_done taken from what the fuse returns. *)
RECURSIVE CrefJoin_FuseStatus(_, _, _, _, _, _, _)
CrefJoin_FuseStatus(mains, joins, fuseOk, k, sh, lg, isDone) ==
    IF k > Len(mains)
    THEN [shape |-> sh, log |-> lg, is_done |-> isDone]
    ELSE CrefJoin_FuseStatus(mains, joins, fuseOk, k + 1,
                             FuseEffect(sh, mains[k], joins[k], fuseOk[k]),
                             Append(lg, Ev("fuse", mains[k], joins[k], fuseOk[k])),
                             fuseOk[k])

(* for main, other_parts in zip(main_parts, join_parts): main.fuse *)
RECURSIVE CrefJoin(_, _, _, _, _, _, _)
CrefJoin(mains, joins, fuseOk, k, sh, lg, isDone) ==
    IF k > Len(mains)
    THEN [shape |-> sh, log |-> lg, is_done |-> isDone]
    ELSE CrefJoin(mains, joins, fuseOk, k + 1,
                  FuseEffect(sh, mains[k], joins[k], fuseOk[k]),
                  Append(lg, Ev("fuse", mains[k], joins[k], fuseOk[k])),
                  TRUE)

(* The pairs of parts an intersection test is made on. *)
TestedPairs(parts, cref) ==
    LET n == Len(parts)
        tested == {ij \in (1..n) \X (1..n) : /\ ij[1] < ij[2]
                                             /\ parts[ij[1]] \in cref
                                             /\ parts[ij[2]] \in cref}
    IN  {{parts[t[1]], parts[t[2]]} : t \in tested}

FuseSurfacePartsByCref ==
    /\ op = "none"
    /\ \E parts \in SeqsUpTo(Parts, NParts), tolGiven \in BOOLEAN :
       \E nonSurf \in SUBSET Range(parts), cref \in SUBSET Range(parts) :
         IF HasNonSurfacePart(parts, nonSurf)
         THEN /\ op' = "FuseSurfacePartsByCref"
              /\ call' = [parts |-> parts, nonSurf |-> nonSurf, cref |-> cref,
                          x |-> {}, tolGiven |-> tolGiven]
              /\ result' = [raised |-> "TypeError", is_done |-> FALSE,
                            mains |-> <<>>, joins |-> <<>>]
              /\ UNCHANGED <<shape, log>>
         ELSE \E x \in SUBSET TestedPairs(parts, cref) :
              \E found \in {CrefOuter(parts, cref, x, tolGiven, shape, 1,
                                      <<>>, <<>>, <<>>)} :
              \E fuseOk \in [1..Len(found.mains) -> BOOLEAN] :
              \E run \in {CrefJoin(found.mains, found.joins, fuseOk, 1,
                                   shape, found.log, FALSE)} :
                  /\ op' = "FuseSurfacePartsByCref"
                  /\ call' = [parts |-> parts, nonSurf |-> nonSurf,
                              cref |-> cref, x |-> x, tolGiven |-> tolGiven]
                  /\ shape' = run.shape
                  /\ log' = run.log
                  /\ result' = [raised |-> "", is_done |-> run.is_done,
                                mains |-> found.mains, joins |-> found.joins]

----------------------------------------------------------------------------
(* CutParts.__init__ *)

(* part.cut(shape2): a cut that succeeds rebuilds the part's shape. *)
CutEffect(sh, part, ok) == IF ok THEN [sh EXCEPT ![part] = Modified(sh[part])] ELSE sh

(* The status kept only for the parts that were cut. *)
SetStatus_OnlyCut(status, part, ok) ==
    IF ok THEN [p \in DOMAIN status \cup {part} |-> IF p = part THEN ok ELSE status[p]]
    ELSE status

(* self._status[part] = status *)
SetStatus(status, part, ok) ==
    [p \in DOMAIN status \cup {part} |-> IF p = part THEN ok ELSE status[p]]

(* for part in parts: status = part.cut(shape2); self._status[part] = status *)
RECURSIVE CutLoop(_, _, _, _, _, _)
CutLoop(parts, rets, i, sh, lg, status) ==
    IF i > Len(parts)
    THEN [shape |-> sh, log |-> lg, status |-> status]
    ELSE CutLoop(parts, rets, i + 1,
                 CutEffect(sh, parts[i], rets[i]),
                 Append(lg, Ev("cut", parts[i], <<sh[parts[i]]>>, rets[i])),
                 SetStatus(status, parts[i], rets[i]))

CutParts ==
    /\ op = "none"
    /\ \E parts \in SeqsUpTo(Parts, MaxLen) :
       \E rets \in [1..Len(parts) -> BOOLEAN] :
         \E run \in {CutLoop(parts, rets, 1, shape,
                              << Ev("to_shape", 0, <<>>, TRUE) >>, <<>>)} :
             /\ KernelAnswers(run.log, "cut", rets, FALSE)
             /\ op' = "CutParts"
             /\ call' = [parts |-> parts, rets |-> rets]
             /\ shape' = run.shape
             /\ log' = run.log
             /\ result' = [raised |-> "", status |-> run.status]

----------------------------------------------------------------------------
(* SewSurfaceParts.__init__ *)

(* [ExploreShape.global_tolerance(shape, ...) for shape in shapes], made   *)
(* only when the tolerance argument is None.                               *)
DefaultTolerance(given, shapes) ==
    IF given THEN <<>>
    ELSE [i \in 1..Len(shapes) |-> Ev("global_tolerance", 0, <<shapes[i]>>, TRUE)]

(* max([...]) of no shapes raises ValueError; numpy's mean of no shapes    *)
(* does not raise.                                                         *)
MaxOfNothing(maxTolGiven, shapes) == ~maxTolGiven /\ shapes = <<>>

(* for part in parts: sew.add(part.shape) *)
SewAdd(shapes) == [i \in 1..Len(shapes) |-> Ev("add", 0, <<shapes[i]>>, TRUE)]

(* The same loop without the is_modified test: every part is rewritten.   *)
RECURSIVE SewLoop_NoTest(_, _, _, _, _)
SewLoop_NoTest(parts, mods, i, sh, lg) ==
    IF i > Len(parts)
    THEN [shape |-> sh, log |-> lg]
    ELSE LET part == parts[i]
             old == sh[part]
         IN  SewLoop_NoTest(parts, mods, i + 1,
                            [sh EXCEPT ![part] = Modified(old)],
                            lg \o << Ev("is_modified", part, <<old>>, mods[i]),
                                     Ev("modified", part, <<old>>, TRUE),
                                     Ev("set_shape", part, <<Modified(old)>>, TRUE) >>)

(* for part in parts:                                                      *)
(*     if not sew.is_modified(part.shape): continue                        *)
(*     mod_shape = sew.modified(part.shape); part.set_shape(mod_shape)     *)
RECURSIVE SewLoop(_, _, _, _, _)
SewLoop(parts, mods, i, sh, lg) ==
    IF i > Len(parts)
    THEN [shape |-> sh, log |-> lg]
    ELSE LET part == parts[i]
             old == sh[part]
             asked == Append(lg, Ev("is_modified", part, <<old>>, mods[i]))
         IN  IF ~mods[i]
             THEN SewLoop(parts, mods, i + 1, sh, asked)
             ELSE SewLoop(parts, mods, i + 1,
                          [sh EXCEPT ![part] = Modified(old)],
                          asked \o << Ev("modified", part, <<old>>, TRUE),
                                      Ev("set_shape", part, <<Modified(old)>>, TRUE) >>)

SewSurfaceParts ==
    /\ op = "none"
    /\ \E parts \in SeqsUpTo(Parts, MaxLen), tolGiven \in BOOLEAN,
          maxTolGiven \in BOOLEAN :
       \E mods \in [1..Len(parts) -> BOOLEAN] :
         LET shapes == ShapesOf(parts, shape)
             tols == DefaultTolerance(tolGiven, shapes)
                         \o DefaultTolerance(maxTolGiven, shapes)
         IN  /\ op' = "SewSurfaceParts"
             /\ call' = [parts |-> parts, tolGiven |-> tolGiven,
                         maxTolGiven |-> maxTolGiven, mods |-> mods]
             /\ IF MaxOfNothing(maxTolGiven, shapes)
                THEN /\ result' = [raised |-> "ValueError"]
                     /\ log' = tols
                     /\ UNCHANGED shape
                ELSE LET pre == tols \o << Ev("SewShape", 0, <<>>, TRUE) >>
                                     \o SewAdd(shapes)
                                     \o << Ev("perform", 0, <<>>, TRUE) >>
                     IN  \E run \in {SewLoop(parts, mods, 1, shape, pre)} :
                         /\ KernelAnswers(run.log, "is_modified", mods, FALSE)
                         /\ result' = [raised |-> ""]
                         /\ log' = run.log
                         /\ shape' = run.shape

----------------------------------------------------------------------------
(* SplitParts.__init__ *)

SplitParts ==
    /\ op = "none"
    /\ \E parts \in SeqsUpTo(Parts, MaxLen), tools \in SeqsUpTo(Parts, MaxLen),
          toolsGiven \in BOOLEAN, done \in BOOLEAN :
         /\ Len(parts) + Len(tools) <= MaxLen
         /\ ~toolsGiven => tools = <<>>
         /\ \E fates \in [1..Len(parts) -> Fate] :
              LET args == ShapesOf(parts, shape)
                  pre == << Ev("set_args", 0, args, TRUE) >>
                         \o (IF toolsGiven
                             THEN << Ev("set_tools", 0, ShapesOf(tools, shape), TRUE) >>
                             ELSE <<>>)
                         \o << Ev("build", 0, <<>>, done),
                               Ev("RebuildShapesByTool", 0, args, TRUE) >>
              IN  \E run \in {RebuildLoop(parts, fates, 1, shape, pre)} :
                  /\ KernelAnswers(run.log, "new_shape", fates, "same")
                  /\ op' = "SplitParts"
                  /\ call' = [parts |-> parts, tools |-> tools,
                              toolsGiven |-> toolsGiven, bop_done |-> done]
                  /\ shape' = run.shape
                  /\ log' = run.log
                  /\ result' = [raised |-> run.raised,
                                is_done |-> run.raised = "" /\ done]

----------------------------------------------------------------------------
(* FuseAssemblies.__init__.  An assembly is the sequence of parts its      *)
(* get_parts returns; the compound made of assembly k is the shape -k.     *)

(* The check of the number of assemblies off by one. *)
NotEnoughAssys_OffByOne(assys) == Len(assys) < 1

(* if len(assys) < 2: raise ValueError *)
NotEnoughAssys(assys) == Len(assys) < 2

RECURSIVE Flatten(_)
Flatten(ss) == IF ss = <<>> THEN <<>> ELSE Head(ss) \o Flatten(Tail(ss))

Compound(k) == 0 - k

(* parts = assy.get_parts(include_subassy); shapes = [...];                *)
(* shape = CompoundByShapes(shapes).compound                               *)
CollectAssy(assys, k, sh) ==
    << Ev("get_parts", k, assys[k], TRUE),
       Ev("CompoundByShapes", k, ShapesOf(assys[k], sh), TRUE) >>

RECURSIVE CollectTools(_, _, _)
CollectTools(assys, k, sh) ==
    IF k > Len(assys) THEN <<>>
    ELSE CollectAssy(assys, k, sh) \o CollectTools(assys, k + 1, sh)

(* The sequences of at most MaxAssys assemblies holding at most MaxLen     *)
(* parts together: a sequence of parts cut at ends[1] <= ... <= ends[n].   *)
AssySeqs ==
    UNION { UNION { { [k \in 1..n |->
                          SubSeq(all, (IF k = 1 THEN 0 ELSE ends[k - 1]) + 1, ends[k])] :
                      ends \in {e \in [1..n -> 0..Len(all)] :
                                   /\ \A k \in 1..(n - 1) : e[k] <= e[k + 1]
                                   /\ n > 0 => e[n] = Len(all)
                                   /\ n = 0 => all = <<>>} } :
                    all \in SeqsUpTo(Parts, MaxLen) } :
            n \in 0..MaxAssys }

FuseAssemblies ==
    /\ op = "none"
    /\ \E assys \in AssySeqs, done \in BOOLEAN :
         /\ op' = "FuseAssemblies"
         /\ IF NotEnoughAssys(assys)
            THEN /\ ~done
                 /\ call' = [assys |-> assys, bop_done |-> done]
                 /\ result' = [raised |-> "ValueError", is_done |-> FALSE]
                 /\ UNCHANGED <<shape, log>>
            ELSE LET all_parts == Flatten(assys)
                     tools == [k \in 1..(Len(assys) - 1) |-> Compound(k + 1)]
                     pre == CollectAssy(assys, 1, shape)
                            \o << Ev("set_args", 0, <<Compound(1)>>, TRUE) >>
                            \o CollectTools(assys, 2, shape)
                            \o << Ev("set_tools", 0, tools, TRUE),
                                  Ev("build", 0, <<>>, done),
                                  Ev("RebuildShapesByTool", 0,
                                     ShapesOf(all_parts, shape), TRUE) >>
                 IN  \E fates \in [1..Len(all_parts) -> Fate] :
                     \E run \in {RebuildLoop(all_parts, fates, 1, shape, pre)} :
                         /\ KernelAnswers(run.log, "new_shape", fates, "same")
                         /\ call' = [assys |-> assys, bop_done |-> done]
                         /\ shape' = run.shape
                         /\ log' = run.log
                         /\ result' = [raised |-> run.raised,
                                       is_done |-> run.raised = "" /\ done]

----------------------------------------------------------------------------
(* afem/geometry/distance.py: the five extrema tools.  kind is the operand *)
(* pair: "PC" point-curve, "PS" point-surface, "CC" curve-curve,           *)
(* "CS" curve-surface, "SS" surface-surface.                               *)

Kinds == {"PC", "PS", "CC", "CS", "SS"}

ClassName(kind) ==
    CASE kind = "PC" -> "DistancePointToCurve"
      [] kind = "PS" -> "DistancePointToSurface"
      [] kind = "CC" -> "DistanceCurveToCurve"
      [] kind = "CS" -> "DistanceCurveToSurface"
      [] kind = "SS" -> "DistanceSurfaceToSurface"

ExtremaOps == {ClassName(k) : k \in Kinds}

SolverName(kind) ==
    CASE kind = "PC" -> "Extrema_ExtPC"
      [] kind = "PS" -> "Extrema_ExtPS"
      [] kind = "CC" -> "Extrema_ExtCC"
      [] kind = "CS" -> "Extrema_ExtCS"
      [] kind = "SS" -> "Extrema_ExtSS"

(* msg of the RuntimeError raised when not tool.IsDone() *)
FailMsg(kind) ==
    CASE kind = "PC" -> "Extrema between point and curve failed."
      [] kind = "PS" -> "Extrema between point and surface failed."
      [] kind = "CC" -> "Extrema between two curves failed."
      [] kind = "CS" -> "Extrema between curve and surface failed."
      [] kind = "SS" -> "Extrema between curve and surface failed."

(* self._parallel = tool.IsParallel(): the two-curve/-surface tools only *)
HasParallel(kind) == kind \in {"CC", "CS", "SS"}

(* The solver's squared distances are the squares of 0..MaxDist, so that   *)
(* math.sqrt is exact on them.                                             *)
SqDists == {d * d : d \in 0..MaxDist}

sqrt(x) == CHOOSE r \in 0..x : r * r = x

(* What the solver returns for its i-th solution besides the distance: the *)
(* parameter(s) and the point(s) of that solution.                         *)
ParameterOf(kind, i) ==
    IF kind = "PS" THEN << <<"u", i>>, <<"v", i>> >> ELSE <<"u", i>>

PointOf(i) == <<"P", i>>
Point1Of(i) == <<"P1", i>>
Point2Of(i) == <<"P2", i>>

(* results.append((di, ui, pi)) / results.append((di, p1, p2)) *)
Row(kind, sq, i) ==
    IF HasParallel(kind)
    THEN << sqrt(sq[i]), Point1Of(i), Point2Of(i) >>
    ELSE << sqrt(sq[i]), ParameterOf(kind, i), PointOf(i) >>

(* for i in range(1, self._nsol + 1): ... *)
Rows(kind, sq, nsol) == [i \in 1..nsol |-> Row(kind, sq, i)]

ReadCalls(kind, nsol) ==
    LET one(i) == << Ev("SquareDistance", i, <<>>, TRUE),
                     Ev(IF HasParallel(kind) THEN "Points" ELSE "Point",
                        i, <<>>, TRUE) >>
        RECURSIVE upto(_)
        upto(i) == IF i = 0 THEN <<>> ELSE upto(i - 1) \o one(i)
    IN  upto(nsol)

(* A sort that puts a row before the rows of equal distance. *)
InsertRow_BeforeEqual(sorted, row) ==
    LET k == Cardinality({i \in 1..Len(sorted) : sorted[i][1] < row[1]})
    IN  SubSeq(sorted, 1, k) \o <<row>> \o SubSeq(sorted, k + 1, Len(sorted))

(* results.sort(key=lambda tup: tup[0]): a stable sort on the distance *)
InsertRow(sorted, row) ==
    LET k == Cardinality({i \in 1..Len(sorted) : sorted[i][1] <= row[1]})
    IN  SubSeq(sorted, 1, k) \o <<row>> \o SubSeq(sorted, k + 1, Len(sorted))

(* The same rows with the sort left out. *)
SortByDistance_Unsorted(rows) == rows

RECURSIVE SortByDistance(_)
SortByDistance(rows) ==
    IF rows = <<>> THEN <<>>
    ELSE InsertRow(SortByDistance(SubSeq(rows, 1, Len(rows) - 1)), rows[Len(rows)])

Column(rows, c) == [i \in 1..Len(rows) |-> rows[i][c]]

NoReport(raised, msg) ==
    [raised |-> raised, msg |-> msg, nsol |-> 0, parallel |-> FALSE,
     dmin |-> 0, dmax |-> 0, dist |-> <<>>,
     prms |-> <<>>, pnts |-> <<>>, pnts1 |-> <<>>, pnts2 |-> <<>>]

(* self._dmin = results[0][0] ... self._pnts = [row[2] for row in results] *)
Report(kind, nsol, parallel, results) ==
    [raised |-> "", msg |-> "", nsol |-> nsol, parallel |-> parallel,
     dmin |-> results[1][1], dmax |-> results[Len(results)][1],
     dist |-> Column(results, 1),
     prms |-> IF HasParallel(kind) THEN <<>> ELSE Column(results, 2),
     pnts |-> IF HasParallel(kind) THEN <<>> ELSE Column(results, 3),
     pnts1 |-> IF HasParallel(kind) THEN Column(results, 2) ELSE <<>>,
     pnts2 |-> IF HasParallel(kind) THEN Column(results, 3) ELSE <<>>]

(* __init__ of the tool of one kind.  done, sq and parallel are the        *)
(* solver's IsDone(), its squared distances (NbExt() of them) and its      *)
(* IsParallel().                                                           *)
Extrema(kind) ==
    /\ op = "none"
    /\ \E done \in BOOLEAN, sq \in SeqsUpTo(SqDists, MaxSol), parallel \in BOOLEAN :
         /\ ~done => sq = <<>> /\ ~parallel
         /\ ~HasParallel(kind) => ~parallel
         /\ op' = ClassName(kind)
         /\ call' = [kind |-> kind, done |-> done, sq |-> sq, parallel |-> parallel]
         /\ UNCHANGED shape
         /\ LET solve == << Ev(SolverName(kind), 0, <<>>, TRUE),
                            Ev("IsDone", 0, <<>>, done) >>
                nsol == Len(sq)
                read == solve \o << Ev("NbExt", 0, <<>>, TRUE) >>
                              \o (IF HasParallel(kind)
                                  THEN << Ev("IsParallel", 0, <<>>, parallel) >>
                                  ELSE <<>>)
                              \o ReadCalls(kind, nsol)
                results == SortByDistance(Rows(kind, sq, nsol))
            IN  IF ~done
                THEN /\ log' = solve
                     /\ result' = NoReport("RuntimeError", FailMsg(kind))
                ELSE /\ log' = read
                     /\ result' = IF results = <<>>
                                  THEN NoReport("IndexError", "list index out of range")
                                  ELSE Report(kind, nsol, parallel, results)

DistancePointToCurve == Extrema("PC")
DistancePointToSurface == Extrema("PS")
DistanceCurveToCurve == Extrema("CC")
DistanceCurveToSurface == Extrema("CS")
DistanceSurfaceToSurface == Extrema("SS")

----------------------------------------------------------------------------

Init ==
    /\ shape = ShapeAtEntry
    /\ op = "none"
    /\ call = NoCall
    /\ log = <<>>
    /\ result = NoResult

Next ==
    \/ FuseSurfaceParts
    \/ FuseSurfacePartsByCref
    \/ CutParts
    \/ SewSurfaceParts
    \/ SplitParts
    \/ FuseAssemblies
    \/ DistancePointToCurve
    \/ DistancePointToSurface
    \/ DistanceCurveToCurve
    \/ DistanceCurveToSurface
    \/ DistanceSurfaceToSurface

Spec == Init /\ [][Next]_vars

----------------------------------------------------------------------------
(* Properties *)

Calls(e) == Asked(log, e)

ResolvingOps == {"FuseSurfaceParts", "SplitParts", "FuseAssemblies", "SewSurfaceParts"}

(* C1: in FuseSurfaceParts, SplitParts, FuseAssemblies and SewSurfaceParts, *)
(* if the primitive reports is_done = false or the resolver fails for some  *)
(* part, set_shape has been called on no part.                              *)
C1_NoShapeWrittenOnFailure ==
    (/\ op \in ResolvingOps
     /\ \/ result.raised # ""
        \/ op # "SewSurfaceParts" /\ ~call.bop_done)
    => Calls("set_shape") = <<>>

(* C2: a solver that is done with zero extrema fails like a solver that is *)
(* not done: the same RuntimeError with the same message, and no report.   *)
C2_ZeroExtremaFailLikeNotDone ==
    (op \in ExtremaOps /\ call.done /\ call.sq = <<>>)
    => /\ result.raised = "RuntimeError"
       /\ result.msg = FailMsg(call.kind)
       /\ result.dist = <<>>

(* C3: every extrema call that succeeds reports a non-empty distance list  *)
(* of exactly nsol entries, in ascending order, whose first element is     *)
(* dmin and whose last element is dmax.                                    *)
C3_ReportSorted ==
    (op \in ExtremaOps /\ result.raised = "")
    => /\ result.dist # <<>>
       /\ Len(result.dist) = result.nsol
       /\ result.nsol = Len(call.sq)
       /\ \A i, j \in 1..Len(result.dist) : i < j => result.dist[i] <= result.dist[j]
       /\ result.dmin = result.dist[1]
       /\ result.dmax = result.dist[Len(result.dist)]

(* A successful call whose solver listed a farther extremum before a       *)
(* nearer one.                                                             *)
C3_Witness ==
    /\ op \in ExtremaOps
    /\ result.raised = ""
    /\ \E i, j \in 1..Len(call.sq) : i < j /\ call.sq[i] > call.sq[j]
    /\ result.dmin < result.dmax

(* C4: after CutParts the outcome mapping has an entry for exactly the     *)
(* parts of the input, each entry is what that part's cut returned (its    *)
(* last cut, for a part given more than once), and a cut is attempted on   *)
(* every part of the input, in order, whatever the earlier cuts returned.  *)
C4_CutOutcomePerPart ==
    op = "CutParts"
    => LET parts == call.parts
           cuts == Calls("cut")
           last(p) == CHOOSE i \in 1..Len(parts) :
                          /\ parts[i] = p
                          /\ \A j \in 1..Len(parts) : parts[j] = p => j <= i
       IN  /\ result.raised = ""
           /\ DOMAIN result.status = Range(parts)
           /\ \A p \in Range(parts) : result.status[p] = call.rets[last(p)]
           /\ Len(cuts) = Len(parts)
           /\ \A i \in 1..Len(parts) :
                  cuts[i].part = parts[i] /\ cuts[i].ok = call.rets[i]

(* Two different parts, the cut of the first fails and the second is cut.  *)
C4_Witness ==
    /\ op = "CutParts"
    /\ Len(call.parts) = 2
    /\ call.parts[1] # call.parts[2]
    /\ ~call.rets[1] /\ call.rets[2]
    /\ result.status[call.parts[1]] = FALSE
    /\ result.status[call.parts[2]] = TRUE
    /\ shape[call.parts[2]] # ShapeAtEntry[call.parts[2]]

(* The k-th smallest element of a set of numbers. *)
Nth(S, k) == CHOOSE e \in S : Cardinality({m \in S : m < e}) = k - 1

(* parts[i] and parts[j] both have a reference curve and the edges of      *)
(* their reference curves intersect in at least one vertex.                *)
Adjacent(i, j) ==
    /\ call.parts[i] \in call.cref
    /\ call.parts[j] \in call.cref
    /\ {call.parts[i], call.parts[j]} \in call.x

CandidatesOf(i) == {j \in (i + 1)..Len(call.parts) : Adjacent(i, j)}

MainIndices == {i \in 1..Len(call.parts) : CandidatesOf(i) # {}}

HasPartner(p) ==
    \E i, j \in 1..Len(call.parts) :
        i < j /\ Adjacent(i, j) /\ p \in {call.parts[i], call.parts[j]}

(* C5: the join groups of FuseSurfacePartsByCref are exactly, for each     *)
(* index i in input order, parts[i] with the parts[j], j > i, adjacent to  *)
(* it, for the i that have such a j; a part with no intersecting partner   *)
(* is no main part, no candidate, is in no fuse and keeps its shape.       *)
C5_JoinGroups ==
    (op = "FuseSurfacePartsByCref" /\ result.raised = "")
    => /\ Len(result.mains) = Cardinality(MainIndices)
       /\ Len(result.joins) = Len(result.mains)
       /\ \A k \in 1..Len(result.mains) :
              LET i == Nth(MainIndices, k)
              IN  /\ result.mains[k] = call.parts[i]
                  /\ Len(result.joins[k]) = Cardinality(CandidatesOf(i))
                  /\ \A t \in 1..Len(result.joins[k]) :
                         result.joins[k][t] = call.parts[Nth(CandidatesOf(i), t)]
       /\ \A p \in Parts :
              ~HasPartner(p)
              => /\ p \notin Range(result.mains)
                 /\ \A k \in 1..Len(result.joins) : p \notin Range(result.joins[k])
                 /\ \A i \in 1..Len(log) :
                        log[i].ev = "fuse" => p # log[i].part /\ p \notin Range(log[i].arg)
                 /\ shape[p] = ShapeAtEntry[p]

(* Parts A, B, C with reference curves of which only A and B intersect:    *)
(* one group, A with [B], fused; C untouched.                              *)
C5_Witness ==
    /\ op = "FuseSurfacePartsByCref"
    /\ call.parts = <<1, 2, 3>>
    /\ call.cref = {1, 2, 3}
    /\ call.x = {{1, 2}}
    /\ result.mains = <<1>>
    /\ result.joins = << <<2>> >>
    /\ shape[1] # ShapeAtEntry[1]
    /\ shape[2] # ShapeAtEntry[2]
    /\ shape[3] = ShapeAtEntry[3]

(* C6: SewSurfaceParts calls set_shape on a part only right after the      *)
(* primitive reported the part's shape modified; a part none of whose      *)
(* shapes was reported modified keeps the shape it had, and a part         *)
(* reported modified ends with the primitive's modified shape for it.      *)
C6_SewRewritesOnlyModified ==
    (op = "SewSurfaceParts" /\ result.raised = "")
    => /\ \A i \in 1..Len(log) :
              log[i].ev = "set_shape"
              => /\ i > 2
                 /\ log[i - 2].ev = "is_modified"
                 /\ log[i - 2].ok
                 /\ log[i - 2].part = log[i].part
                 /\ log[i].arg = <<Modified(log[i - 2].arg[1])>>
       /\ \A p \in Parts :
              LET reported == {i \in 1..Len(log) :
                                   /\ log[i].ev = "is_modified"
                                   /\ log[i].part = p
                                   /\ log[i].ok}
              IN  IF reported = {}
                  THEN /\ shape[p] = ShapeAtEntry[p]
                       /\ \A i \in 1..Len(log) :
                              log[i].ev = "set_shape" => log[i].part # p
                  ELSE shape[p] = Modified(log[Nth(reported, Cardinality(reported))].arg[1])

(* Two parts sewn, the first reported unmodified and the second modified.  *)
C6_Witness ==
    /\ op = "SewSurfaceParts"
    /\ result.raised = ""
    /\ Len(call.parts) = 2
    /\ call.parts[1] # call.parts[2]
    /\ ~call.mods[1] /\ call.mods[2]
    /\ shape[call.parts[1]] = ShapeAtEntry[call.parts[1]]
    /\ shape[call.parts[2]] = Modified(ShapeAtEntry[call.parts[2]])

(* C7: FuseAssemblies given fewer than two assemblies raises ValueError    *)
(* before any call to an assembly or to the kernel, and changes no shape.  *)
C7_TooFewAssemblies ==
    (op = "FuseAssemblies" /\ Len(call.assys) < 2)
    => /\ result.raised = "ValueError"
       /\ log = <<>>
       /\ shape = ShapeAtEntry

(* One assembly that holds a part. *)
C7_Witness ==
    /\ op = "FuseAssemblies"
    /\ Len(call.assys) = 1
    /\ call.assys[1] # <<>>
    /\ result.raised = "ValueError"

(* The operand pair an error message names. *)
PairNamed(msg) ==
    CASE msg = "Extrema between point and curve failed." -> "PC"
      [] msg = "Extrema between point and surface failed." -> "PS"
      [] msg = "Extrema between two curves failed." -> "CC"
      [] msg = "Extrema between curve and surface failed." -> "CS"
      [] msg = "Extrema between two surfaces failed." -> "SS"
      [] OTHER -> "none"

(* C8: when the solver reports not-done the call fails with an error       *)
(* naming the operand pair of the tool, the solver is invoked exactly once *)
(* and no solution is read from it, and no report is produced.             *)
C8_NotDoneNamesOperandPair ==
    (op \in ExtremaOps /\ ~call.done)
    => /\ result.raised = "RuntimeError"
       /\ PairNamed(result.msg) = call.kind
       /\ Len(Calls(SolverName(call.kind))) = 1
       /\ \A i \in 1..Len(log) :
              log[i].ev \notin {"NbExt", "SquareDistance", "Point", "Points"}
       /\ result.dist = <<>>

(* C9: after FuseSurfacePartsByCref, is_done is true exactly when some     *)
(* main part had a candidate, that is, when a fuse was invoked; it is      *)
(* false with fewer than two parts or with no part that has a reference    *)
(* curve.                                                                  *)
C9_IsDoneIffGroup ==
    (op = "FuseSurfacePartsByCref" /\ result.raised = "")
    => /\ result.is_done <=> MainIndices # {}
       /\ result.is_done <=> Calls("fuse") # <<>>
       /\ (Len(call.parts) < 2 \/ call.cref = {}) => ~result.is_done

(* A group was found and fused, and the fuse itself returned false.        *)
C9_Witness ==
    /\ op = "FuseSurfacePartsByCref"
    /\ result.raised = ""
    /\ result.is_done
    /\ Len(result.mains) = 1
    /\ \E i \in 1..Len(log) : log[i].ev = "fuse" /\ ~log[i].ok

(* C10: FuseSurfacePartsByCref given a part that is no surface part, at    *)
(* any position, raises TypeError before any intersection test or fuse,    *)
(* and changes no shape.                                                   *)
C10_NonSurfacePartRejected ==
    (/\ op = "FuseSurfacePartsByCref"
     /\ \E i \in 1..Len(call.parts) : call.parts[i] \in call.nonSurf)
    => /\ result.raised = "TypeError"
       /\ ~result.is_done
       /\ log = <<>>
       /\ shape = ShapeAtEntry

(* Surface parts with reference curves first, the part that is no surface  *)
(* part last.                                                              *)
C10_Witness ==
    /\ op = "FuseSurfacePartsByCref"
    /\ result.raised = "TypeError"
    /\ Len(call.parts) = 3
    /\ call.nonSurf = {call.parts[3]}
    /\ {call.parts[1], call.parts[2]} \subseteq call.cref
    /\ call.parts[1] # call.parts[2]

(* The solver solution the k-th entry of a column of the report came from: *)
(* the index carried by the point or parameter.                            *)
SolutionOf(label) == label[2]

(* C11: in every extrema report the i-th distance, the i-th parameter and  *)
(* the i-th point(s) come from one solver solution, every solution is      *)
(* reported once, and solutions of equal distance keep the solver's        *)
(* enumeration order.                                                      *)
C11_StableRows ==
    (op \in ExtremaOps /\ result.raised = "")
    => LET n == Len(result.dist)
           first == IF HasParallel(call.kind) THEN result.pnts1 ELSE result.pnts
           src(k) == SolutionOf(first[k])
       IN  /\ Len(first) = n
           /\ {src(k) : k \in 1..n} = 1..Len(call.sq)
           /\ \A k \in 1..n :
                  /\ result.dist[k] * result.dist[k] = call.sq[src(k)]
                  /\ IF HasParallel(call.kind)
                     THEN /\ result.pnts1[k] = Point1Of(src(k))
                          /\ result.pnts2[k] = Point2Of(src(k))
                          /\ Len(result.pnts2) = n
                     ELSE /\ result.pnts[k] = PointOf(src(k))
                          /\ result.prms[k] = ParameterOf(call.kind, src(k))
                          /\ Len(result.prms) = n
           /\ \A k, l \in 1..n :
                  (k < l /\ result.dist[k] = result.dist[l]) => src(k) < src(l)

(* Three solutions, the first and the last at one distance and the second  *)
(* nearer: the sort moves the second to the front and keeps the two equal  *)
(* ones in the solver's order.                                             *)
C11_Witness ==
    /\ op \in ExtremaOps
    /\ result.raised = ""
    /\ Len(call.sq) = 3
    /\ call.sq[1] = call.sq[3]
    /\ call.sq[2] < call.sq[1]
    /\ result.dist[2] = result.dist[3]

(* The index pairs i < j of parts that both have a reference curve. *)
TestedIndexPairs ==
    {ij \in (1..Len(call.parts)) \X (1..Len(call.parts)) :
         /\ ij[1] < ij[2]
         /\ call.parts[ij[1]] \in call.cref
         /\ call.parts[ij[2]] \in call.cref}

(* C12: in FuseSurfacePartsByCref every kept main part gets exactly one    *)
(* fuse call, whose arguments are all its candidates in input order, the   *)
(* main parts are fused in input order, and no fuse is invoked before all  *)
(* the pairwise reference-curve tests have been made.                      *)
C12_OneFusePerMain ==
    (op = "FuseSurfacePartsByCref" /\ result.raised = "")
    => LET fuses == Calls("fuse")
       IN  /\ Len(fuses) = Cardinality(MainIndices)
           /\ \A k \in 1..Len(fuses) :
                  LET i == Nth(MainIndices, k)
                  IN  /\ fuses[k].part = call.parts[i]
                      /\ fuses[k].arg = [t \in 1..Cardinality(CandidatesOf(i)) |->
                                            call.parts[Nth(CandidatesOf(i), t)]]
           /\ Len(Calls("IntersectShapes")) = Cardinality(TestedIndexPairs)
           /\ \A i, j \in 1..Len(log) :
                  (log[i].ev = "fuse" /\ log[j].ev = "IntersectShapes") => j < i

(* Three parts whose reference curves all intersect: the first is fused    *)
(* with the two others in one call, then the second with the third.        *)
C12_Witness ==
    /\ op = "FuseSurfacePartsByCref"
    /\ result.raised = ""
    /\ call.parts = <<1, 2, 3>>
    /\ Len(Calls("IntersectShapes")) = 3
    /\ Len(Calls("fuse")) = 2
    /\ Calls("fuse")[1].part = 1 /\ Calls("fuse")[1].arg = <<2, 3>>
    /\ Calls("fuse")[2].part = 2 /\ Calls("fuse")[2].arg = <<3>>

RebuildOps == {"FuseSurfaceParts", "SplitParts", "FuseAssemblies"}

(* C13: in FuseSurfaceParts, SplitParts and FuseAssemblies, for every      *)
(* occurrence of a part in the input, the shape passed to the resolver is  *)
(* the shape the part had when the inputs of the primitive were collected, *)
(* a member of the shapes the resolver was built with.                     *)
C13_ResolverAskedOriginalShapes ==
    op \in RebuildOps
    => \A i \in 1..Len(log) :
           log[i].ev = "new_shape"
           => /\ log[i].arg = <<ShapeAtEntry[log[i].part]>>
              /\ \E j \in 1..(i - 1) :
                     /\ log[j].ev = "RebuildShapesByTool"
                     /\ log[i].arg[1] \in Range(log[j].arg)

====
